---------------------------- MODULE Spec2Model ----------------------------
(***************************************************************************)
(* A model of packages/portfolio/stock.py (class Stock) and of the disk    *)
(* it reads and writes: the storage directories, the metadata snapshot     *)
(* StockInfo.json and the two ledger tables stockPurchaseHistory.json and  *)
(* rogueHoldings.json.                                                     *)
(*                                                                         *)
(* Every public method is one action.  A method that raises leaves the     *)
(* name of the exception in `result`; the value a method returns is left   *)
(* in `ret`.  The calls a method makes to its collaborators (os.makedirs,  *)
(* CurrencyConverter.convert, Ticker.info) are logged per call of the      *)
(* method in makedirsCalls, convertCalls and infoCalls; what a method      *)
(* hands to the plotting library is logged in plotCalls.                    *)
(*                                                                         *)
(* Money and share counts are floats in the program; here they are         *)
(* integers, and the inputs are chosen so that every division is exact.    *)
(***************************************************************************)
EXTENDS Integers, Sequences, FiniteSets, TLC

VARIABLES
    baseSaveDirectory,      \* None, or BasePath (the normalised constructor argument)
    isJSE,                  \* constructor argument
    displayCurrency,        \* NoAttr until the caller assigns the attribute
    columnsAttr,            \* whether the instance has _stockPurchaseHistoryColumns
    dirs,                   \* the directories that exist on disk
    StockInfoFile,          \* content of StockInfo.json, or NoFile
    StockPurchaseHistoryFile, \* content of stockPurchaseHistory.json
    RogueStockHoldingsFile, \* content of rogueHoldings.json
    op,                     \* the method called last
    args,                   \* for loadDirectories: the call that preceded it
                            \* and the directories it found
    result,                 \* "ok" or the exception it raised
    ret,                    \* the value it returned
    makedirsCalls,          \* os.makedirs calls of the last method call, in order
    convertCalls,           \* currencyConverter.convert calls of the last method call
    infoCalls,              \* number of Ticker.info reads of the last method call
    plotCalls               \* the y values of the plt.plot_date calls of the last method call

vars == <<baseSaveDirectory, isJSE, displayCurrency, columnsAttr, dirs,
          StockInfoFile, StockPurchaseHistoryFile, RogueStockHoldingsFile,
          op, args, result, ret, makedirsCalls, convertCalls, infoCalls,
          plotCalls>>

disk == <<dirs, StockInfoFile, StockPurchaseHistoryFile, RogueStockHoldingsFile>>
attrs == <<baseSaveDirectory, isJSE, displayCurrency, columnsAttr>>
ledgerFiles == <<StockPurchaseHistoryFile, RogueStockHoldingsFile>>

---------------------------------------------------------------------------
(* Values *)

None == "None"
NoAttr == "NoAttr"        \* the attribute is not set: reading it raises AttributeError

(* A file on disk: absent (os.path.exists is false), present and not        *)
(* parseable as JSON, or present with parseable content.                    *)
NoFile == [exists |-> FALSE, parseable |-> FALSE, content |-> <<>>]
Corrupt == [exists |-> TRUE, parseable |-> FALSE, content |-> <<>>]
File(content) == [exists |-> TRUE, parseable |-> TRUE, content |-> content]

(* Returned values *)
NoneRet == [kind |-> "None"]
Frame(rows) == [kind |-> "DataFrame", rows |-> rows]
Number(n) == [kind |-> "number", n |-> n]
Dict(d) == [kind |-> "dict", data |-> d]
Bool(b) == [kind |-> "bool", b |-> b]

(* A date cell of a table: a datetime, its "%Y-%m-%d" text, or null/NaN.    *)
datetime(day, hour) == [kind |-> "datetime", day |-> day, hour |-> hour]
NullDate == [kind |-> "null", day |-> 0, hour |-> 0]
strftime(date) == [kind |-> "str", day |-> date.day, hour |-> 0]
strptime(text) == [kind |-> "datetime", day |-> text.day, hour |-> 0]

(* The largest number of rows the rogue table is grown to. *)
MaxRogue == 1

BasePath == "base"
cashflowSaveDirectory == "base/cashflow"
incomestatementSaveDirectory == "base/incomestatement"
balancesheetSaveDirectory == "base/balancesheet"

(* The key list had the base directory's attribute a name that does not   *)
(* end with "Directory".                                                    *)
directoryAttributeKeys_WithoutBase ==
    <<cashflowSaveDirectory, incomestatementSaveDirectory,
      balancesheetSaveDirectory>>

(* The instance attributes whose name ends with "Directory", in the order  *)
(* __init__ assigns them.                                                   *)
directoryAttributeKeys ==
    <<BasePath, cashflowSaveDirectory, incomestatementSaveDirectory,
      balancesheetSaveDirectory>>

AllDirectories == {directoryAttributeKeys[i] : i \in DOMAIN directoryAttributeKeys}

Currencies == {"USD", "ZAR"}

(* Units of each currency per unit of the reference currency.               *)
Rate == [c \in Currencies |-> IF c = "USD" THEN 1 ELSE 2]

cleanInfoKeys ==
    {"sector", "zip", "fullTimeEmployees", "longBusinessSummary", "city",
     "phone", "country", "website", "address1", "address2", "fax", "industry",
     "recommendationKey", "financialCurrency", "exchange", "shortName",
     "longName", "exchangeTimezoneName", "symbol", "logo_url"}

(* Python truthiness.  An optional number that is not given is 0 here: the *)
(* program tests such arguments only with "not x", which None and 0 both    *)
(* satisfy.  A metadata value is a string, falsy when empty.                *)
Absent == 0
FalsyNumber(x) == x = 0
FalsyString(x) == x = ""

Ok(v) == [result |-> "ok", value |-> v]
Raise(e) == [result |-> e, value |-> <<>>]

---------------------------------------------------------------------------
(* Collaborators *)

(* os.makedirs(directory): creates the directory and its missing parents.  *)
makedirs(existing, directory) == existing \cup {directory, BasePath}

(* open(path, 'w') / to_json(path): possible only inside an existing        *)
(* directory.  A path built from no base directory is None.                 *)
WriteError ==
    IF baseSaveDirectory = None THEN "TypeError"
    ELSE IF BasePath \notin dirs THEN "OSError"
    ELSE "ok"

(* CurrencyConverter.convert(amount, currency, new_currency) *)
convert(amount, currency, new_currency) ==
    (amount * Rate[new_currency]) \div Rate[currency]

ConvertCall(amount, currency, new_currency) ==
    [amount |-> amount, currency |-> currency, new_currency |-> new_currency]

---------------------------------------------------------------------------
(* Stock.__init__ : the state after construction, on a disk that holds no  *)
(* file of the instance yet.                                                *)

TreeConsistent(ds) == ds # {} => BasePath \in ds

Init ==
    /\ baseSaveDirectory \in {None, BasePath}
    /\ isJSE \in BOOLEAN
    /\ displayCurrency = NoAttr
    /\ columnsAttr = FALSE
    /\ dirs \in {ds \in SUBSET AllDirectories :
                    /\ TreeConsistent(ds)
                    /\ baseSaveDirectory = None => ds = {}}
    /\ StockInfoFile = NoFile
    /\ StockPurchaseHistoryFile = NoFile
    /\ RogueStockHoldingsFile = NoFile
    /\ op = "__init__"
    /\ args = <<>>
    /\ result = "ok"
    /\ ret = NoneRet
    /\ makedirsCalls = <<>>
    /\ plotCalls = <<>>
    /\ convertCalls = <<>>
    /\ infoCalls = 0

---------------------------------------------------------------------------
(* Stock.loadDirectories *)

(* The loop over directoryAttributeKeys from position i on: the            *)
(* directories on disk and the os.makedirs calls issued.                    *)
(* The loop without its os.path.exists test. *)
RECURSIVE createDirectories_NoExistsCheck(_, _, _)
createDirectories_NoExistsCheck(i, existing, calls) ==
    IF i > Len(directoryAttributeKeys) THEN [dirs |-> existing, calls |-> calls]
    ELSE LET directory == directoryAttributeKeys[i] IN
         createDirectories_NoExistsCheck(i + 1, makedirs(existing, directory),
                                         Append(calls, directory))

RECURSIVE createDirectories(_, _, _)
createDirectories(i, existing, calls) ==
    IF i > Len(directoryAttributeKeys) THEN [dirs |-> existing, calls |-> calls]
    ELSE LET directory == directoryAttributeKeys[i] IN
         IF directory \notin existing
         THEN createDirectories(i + 1, makedirs(existing, directory),
                                Append(calls, directory))
         ELSE createDirectories(i + 1, existing, calls)

(* loadDirectories without its test of self.baseSaveDirectory. *)
loadDirectoriesOutcome_NoBaseCheck ==
    LET c == createDirectories(1, dirs, <<>>) IN
    [result |-> "ok", dirs |-> c.dirs, calls |-> c.calls]

loadDirectoriesOutcome ==
    IF baseSaveDirectory # None
    THEN LET c == createDirectories(1, dirs, <<>>) IN
         [result |-> "ok", dirs |-> c.dirs, calls |-> c.calls]
    ELSE [result |-> "ValueError", dirs |-> dirs, calls |-> <<>>]

loadDirectories ==
    LET o == loadDirectoriesOutcome IN
    /\ op' = "loadDirectories"
    /\ args' = [afterOp |-> op, afterResult |-> result, dirsBefore |-> dirs]
    /\ result' = o.result
    /\ ret' = NoneRet
    /\ dirs' = o.dirs
    /\ makedirsCalls' = o.calls
    /\ plotCalls' = <<>>
    /\ convertCalls' = <<>>
    /\ infoCalls' = 0
    /\ UNCHANGED <<attrs, StockInfoFile, ledgerFiles>>

---------------------------------------------------------------------------
(* The caller and the test harness *)

(* TestStock.tearDown: shutil.rmtree of the directory that holds           *)
(* everything the instance stores.                                          *)
tearDown ==
    /\ dirs # {}
    /\ op' = "tearDown"
    /\ args' = <<>>
    /\ result' = "ok"
    /\ ret' = NoneRet
    /\ dirs' = {}
    /\ StockInfoFile' = NoFile
    /\ StockPurchaseHistoryFile' = NoFile
    /\ RogueStockHoldingsFile' = NoFile
    /\ makedirsCalls' = <<>>
    /\ plotCalls' = <<>>
    /\ convertCalls' = <<>>
    /\ infoCalls' = 0
    /\ UNCHANGED attrs

(* __init__ leaves displayCurrency unset (its assignment is commented      *)
(* out); the attribute exists only once the caller assigns it.              *)
setDisplayCurrency(c) ==
    /\ displayCurrency # c
    /\ displayCurrency' = c
    /\ op' = "setDisplayCurrency"
    /\ args' = <<>>
    /\ result' = "ok"
    /\ ret' = NoneRet
    /\ makedirsCalls' = <<>>
    /\ plotCalls' = <<>>
    /\ convertCalls' = <<>>
    /\ infoCalls' = 0
    /\ UNCHANGED <<baseSaveDirectory, isJSE, columnsAttr, disk>>

(* The class defines stockPurchaseHistoryColumns; the loaders read         *)
(* self._stockPurchaseHistoryColumns, which exists only once the caller    *)
(* assigns it.                                                              *)
setColumnsAttr ==
    /\ ~columnsAttr
    /\ columnsAttr' = TRUE
    /\ op' = "setColumnsAttr"
    /\ args' = <<>>
    /\ result' = "ok"
    /\ ret' = NoneRet
    /\ makedirsCalls' = <<>>
    /\ plotCalls' = <<>>
    /\ convertCalls' = <<>>
    /\ infoCalls' = 0
    /\ UNCHANGED <<baseSaveDirectory, isJSE, displayCurrency, disk>>

---------------------------------------------------------------------------
(* Stock.saveCleanInfo, Stock.cleanInfo : the metadata cache *)

(* What Ticker.info may answer.  "marketCap" is a key outside              *)
(* cleanInfoKeys; an empty string is a falsy value.                         *)
ProviderInfos ==
    { [financialCurrency |-> "USD", sector |-> "Technology", marketCap |-> "5"],
      [financialCurrency |-> "ZAR", sector |-> "", marketCap |-> "7"],
      [sector |-> "Technology", marketCap |-> "5"] }

(* The answers met while a purchase is recorded; a snapshot without       *)
(* "financialCurrency" can still be in the cache from cleanInfo.            *)
LedgerInfos == {info \in ProviderInfos : "financialCurrency" \in DOMAIN info}

(* { key: info[key] for key in self.cleanInfoKeys if info.get(key) } *)
filterInfo(info) ==
    LET kept == {key \in cleanInfoKeys \cap DOMAIN info : ~FalsyString(info[key])}
    IN [key \in kept |-> info[key]]

(* The body of saveCleanInfo with no destination: one read of self.info,   *)
(* then the dump into StockInfo.json.                                       *)
saveCleanInfoOutcome(info) ==
    IF WriteError # "ok"
    THEN [result |-> WriteError, file |-> StockInfoFile, infoCalls |-> 1]
    ELSE [result |-> "ok", file |-> File(filterInfo(info)), infoCalls |-> 1]

(* cleanInfo that fetches whether or not a snapshot is cached. *)
cleanInfoOutcome_IgnoresCache(updated, info) ==
    LET s == saveCleanInfoOutcome(info) IN
    [result |-> s.result,
     data |-> IF s.result = "ok" THEN s.file.content ELSE <<>>,
     file |-> s.file, infoCalls |-> s.infoCalls]

(* cleanInfo(updated) on the snapshot file as it is on entry.  After a     *)
(* save the method calls itself with updated=False and reads the file it   *)
(* has just written.                                                        *)
cleanInfoOutcome(updated, info) ==
    LET cached == [result |-> "ok", data |-> StockInfoFile.content,
                   file |-> StockInfoFile, infoCalls |-> 0]
        saved == LET s == saveCleanInfoOutcome(info) IN
                 [result |-> s.result,
                  data |-> IF s.result = "ok" THEN s.file.content ELSE <<>>,
                  file |-> s.file, infoCalls |-> s.infoCalls]
    IN IF updated THEN saved
       ELSE IF baseSaveDirectory = None      \* os.path.exists(None)
       THEN [result |-> "TypeError", data |-> <<>>, file |-> StockInfoFile,
             infoCalls |-> 0]
       ELSE IF ~StockInfoFile.exists THEN saved
       ELSE cached

cleanInfo(updated, info) ==
    LET o == cleanInfoOutcome(updated, info) IN
    /\ op' = "cleanInfo"
    /\ args' = <<>>
    /\ result' = o.result
    /\ ret' = IF o.result = "ok" THEN Dict(o.data) ELSE NoneRet
    /\ StockInfoFile' = o.file
    /\ infoCalls' = o.infoCalls
    /\ makedirsCalls' = <<>>
    /\ plotCalls' = <<>>
    /\ convertCalls' = <<>>
    /\ UNCHANGED <<attrs, dirs, ledgerFiles>>

(* saveCleanInfo(destination): a destination that is given makes the       *)
(* method read self.baseStockDataDirectory, which no code sets.             *)
saveCleanInfo(destinationGiven, info) ==
    LET o == IF destinationGiven
             THEN [result |-> "AttributeError", file |-> StockInfoFile,
                   infoCalls |-> 0]
             ELSE saveCleanInfoOutcome(info)
    IN
    /\ op' = "saveCleanInfo"
    /\ args' = <<>>
    /\ result' = o.result
    /\ ret' = IF o.result = "ok" THEN Bool(TRUE) ELSE NoneRet
    /\ StockInfoFile' = o.file
    /\ infoCalls' = o.infoCalls
    /\ makedirsCalls' = <<>>
    /\ plotCalls' = <<>>
    /\ convertCalls' = <<>>
    /\ UNCHANGED <<attrs, dirs, ledgerFiles>>

---------------------------------------------------------------------------
(* Stock.history and the JSE correction *)

(* What Ticker.history may answer for the days around a date: one row of   *)
(* prices, and whether the series has a row for the date itself.            *)
ProviderSeries ==
    { [Open |-> 100, High |-> 300, Low |-> 100, Close |-> 200, hasDate |-> TRUE],
      [Open |-> 100, High |-> 300, Low |-> 100, Close |-> 200, hasDate |-> FALSE] }

(* x*10**-2 on each of the four price columns *)
JSE_YAHOO_CORRECTION(stockHistory) ==
    [stockHistory EXCEPT !.Open = @ \div 100, !.High = @ \div 100,
                         !.Low = @ \div 100, !.Close = @ \div 100]

(* history with the correction applied to a series that already had it *)
historyOutcome_CorrectsTwice(series) ==
    IF isJSE THEN JSE_YAHOO_CORRECTION(JSE_YAHOO_CORRECTION(series)) ELSE series

historyOutcome(series) ==
    IF isJSE THEN JSE_YAHOO_CORRECTION(series) ELSE series

history(series) ==
    /\ op' = "history"
    /\ args' = <<>>
    /\ result' = "ok"
    /\ ret' = [kind |-> "series", series |-> historyOutcome(series)]
    /\ makedirsCalls' = <<>>
    /\ plotCalls' = <<>>
    /\ convertCalls' = <<>>
    /\ infoCalls' = 0
    /\ UNCHANGED <<attrs, disk>>

(* Stock.graphStock: the Close column of what history returns is plotted   *)
(* as it is.                                                                *)
graphStock(series) ==
    /\ op' = "graphStock"
    /\ args' = <<>>
    /\ result' = "ok"
    /\ ret' = NoneRet
    /\ makedirsCalls' = <<>>
    /\ plotCalls' = <<historyOutcome(series).Close>>
    /\ convertCalls' = <<>>
    /\ infoCalls' = 0
    /\ UNCHANGED <<attrs, disk>>

---------------------------------------------------------------------------
(* The ledger tables *)

(* A row of stockPurchaseHistory.json (stockPurchaseHistoryColumns); a row *)
(* of rogueHoldings.json has the same columns but the date.                 *)
PurchaseRow(DateofPurchase, PurchasePrice, StocksPurchased, StockPrice, Currency) ==
    [DateofPurchase |-> DateofPurchase, PurchasePrice |-> PurchasePrice,
     StocksPurchased |-> StocksPurchased, StockPrice |-> StockPrice,
     Currency |-> Currency]

RogueRow(PurchasePrice, StocksPurchased, StockPrice, Currency) ==
    [PurchasePrice |-> PurchasePrice, StocksPurchased |-> StocksPurchased,
     StockPrice |-> StockPrice, Currency |-> Currency]

(* The property stock_purchase_history, reading `file`.  A file that does  *)
(* not parse yields the empty frame.  The list comprehension drops the     *)
(* null dates, and assigning a list shorter than the frame raises           *)
(* ValueError.  The dates that parse become the index.                      *)
stock_purchase_history(file) ==
    IF ~columnsAttr THEN Raise("AttributeError")
    ELSE IF baseSaveDirectory = None THEN Raise("TypeError")
    ELSE IF ~file.exists THEN Ok(<<>>)
    ELSE IF ~file.parseable THEN Ok(<<>>)
    ELSE IF \E i \in DOMAIN file.content : file.content[i].DateofPurchase = NullDate
    THEN Raise("ValueError")
    ELSE Ok([i \in DOMAIN file.content |->
               [file.content[i] EXCEPT !.DateofPurchase = strptime(@)]])

(* The property rogueHoldings, reading `file`. *)
rogueHoldings(file) ==
    IF ~columnsAttr THEN Raise("AttributeError")
    ELSE IF baseSaveDirectory = None THEN Raise("TypeError")
    ELSE IF ~file.exists THEN Ok(<<>>)
    ELSE IF ~file.parseable THEN Ok(<<>>)
    ELSE Ok(file.content)

(* DataFrame.append(row, ignore_index=True) on a frame loaded by           *)
(* stock_purchase_history: the frame's index, which holds the dates, is    *)
(* dropped, and the DateofPurchase column the new row brings is NaN in     *)
(* the rows that were there.                                                *)
appendIgnoreIndex(df, new_df_row) ==
    [i \in DOMAIN df |-> [df[i] EXCEPT !.DateofPurchase = NullDate]]
        \o <<new_df_row>>

(* Stock.__createDataFrameforPurchaseHistory *)
createDataFrameforPurchaseHistory(DateofPurchase, PurchasePrice, StocksPurchased, StockPrice, Currency) ==
    PurchaseRow(strftime(DateofPurchase), PurchasePrice, StocksPurchased,
                StockPrice, Currency)

(* Stock.__createDataFrameForRoguePurchases *)
createDataFrameForRoguePurchases(purchasePrice, stocksPurch, purchaseCurrency, stockPrice) ==
    RogueRow(purchasePrice, stocksPurch, stockPrice, purchaseCurrency)

(* Stock._updatePurchaseHistory: load, append, rewrite the whole file. *)
updatePurchaseHistory(new_df) ==
    LET df == stock_purchase_history(StockPurchaseHistoryFile) IN
    IF df.result # "ok" THEN [result |-> df.result, file |-> StockPurchaseHistoryFile]
    ELSE IF WriteError # "ok"
    THEN [result |-> WriteError, file |-> StockPurchaseHistoryFile]
    ELSE [result |-> "ok", file |-> File(appendIgnoreIndex(df.value, new_df))]

(* Stock.__updateRoguePurchases *)
updateRoguePurchases(new_df) ==
    LET df == rogueHoldings(RogueStockHoldingsFile) IN
    IF df.result # "ok" THEN [result |-> df.result, file |-> RogueStockHoldingsFile]
    ELSE IF WriteError # "ok"
    THEN [result |-> WriteError, file |-> RogueStockHoldingsFile]
    ELSE [result |-> "ok", file |-> File(Append(df.value, new_df))]

(* The two properties as operations of their own *)
read_stock_purchase_history ==
    LET df == stock_purchase_history(StockPurchaseHistoryFile) IN
    /\ op' = "stock_purchase_history"
    /\ args' = <<>>
    /\ result' = df.result
    /\ ret' = IF df.result = "ok" THEN Frame(df.value) ELSE NoneRet
    /\ makedirsCalls' = <<>>
    /\ plotCalls' = <<>>
    /\ convertCalls' = <<>>
    /\ infoCalls' = 0
    /\ UNCHANGED <<attrs, disk>>

read_rogueHoldings ==
    LET df == rogueHoldings(RogueStockHoldingsFile) IN
    /\ op' = "rogueHoldings"
    /\ args' = <<>>
    /\ result' = df.result
    /\ ret' = IF df.result = "ok" THEN Frame(df.value) ELSE NoneRet
    /\ makedirsCalls' = <<>>
    /\ plotCalls' = <<>>
    /\ convertCalls' = <<>>
    /\ infoCalls' = 0
    /\ UNCHANGED <<attrs, disk>>

---------------------------------------------------------------------------
(* Stock.purchaseValue and Stock.shares *)

(* One of the two loops of purchaseValue over the rows from position i on. *)
(* Comparing a row's currency with self.displayCurrency raises             *)
(* AttributeError while the attribute is not set.                           *)
RECURSIVE sumPurchasePrices(_, _, _, _)
sumPurchasePrices(rows, i, purchaseValue, calls) ==
    IF i > Len(rows)
    THEN [result |-> "ok", purchaseValue |-> purchaseValue, calls |-> calls]
    ELSE IF displayCurrency = NoAttr
    THEN [result |-> "AttributeError", purchaseValue |-> purchaseValue,
          calls |-> calls]
    ELSE LET value == rows[i].PurchasePrice
             currency == rows[i].Currency
         IN IF currency # displayCurrency
            THEN sumPurchasePrices(rows, i + 1,
                    purchaseValue + convert(value, currency, displayCurrency),
                    Append(calls, ConvertCall(value, currency, displayCurrency)))
            ELSE sumPurchasePrices(rows, i + 1, purchaseValue + value, calls)

purchaseValueOutcome ==
    LET df == stock_purchase_history(StockPurchaseHistoryFile)
        rogue_df == rogueHoldings(RogueStockHoldingsFile)
    IN IF df.result # "ok"
       THEN [result |-> df.result, purchaseValue |-> 0, calls |-> <<>>]
       ELSE IF rogue_df.result # "ok"
       THEN [result |-> rogue_df.result, purchaseValue |-> 0, calls |-> <<>>]
       ELSE LET r == sumPurchasePrices(rogue_df.value, 1, 0, <<>>) IN
            IF r.result # "ok" THEN r
            ELSE sumPurchasePrices(df.value, 1, r.purchaseValue, r.calls)

purchaseValue ==
    LET o == purchaseValueOutcome IN
    /\ op' = "purchaseValue"
    /\ args' = <<>>
    /\ result' = o.result
    /\ ret' = IF o.result = "ok" THEN Number(o.purchaseValue) ELSE NoneRet
    /\ convertCalls' = o.calls
    /\ makedirsCalls' = <<>>
    /\ plotCalls' = <<>>
    /\ infoCalls' = 0
    /\ UNCHANGED <<attrs, disk>>

RECURSIVE sumStocksPurchased(_, _, _)
sumStocksPurchased(rows, i, stocks) ==
    IF i > Len(rows) THEN stocks
    ELSE sumStocksPurchased(rows, i + 1, stocks + rows[i].StocksPurchased)

sharesOutcome ==
    LET df == stock_purchase_history(StockPurchaseHistoryFile)
        rogue_df == rogueHoldings(RogueStockHoldingsFile)
    IN IF df.result # "ok" THEN Raise(df.result)
       ELSE IF rogue_df.result # "ok" THEN Raise(rogue_df.result)
       ELSE Ok(sumStocksPurchased(df.value, 1,
                                  sumStocksPurchased(rogue_df.value, 1, 0)))

shares ==
    LET o == sharesOutcome IN
    /\ op' = "shares"
    /\ args' = <<>>
    /\ result' = o.result
    /\ ret' = IF o.result = "ok" THEN Number(o.value) ELSE NoneRet
    /\ makedirsCalls' = <<>>
    /\ plotCalls' = <<>>
    /\ convertCalls' = <<>>
    /\ infoCalls' = 0
    /\ UNCHANGED <<attrs, disk>>

---------------------------------------------------------------------------
(* Stock.addRoguePurchase *)

addRoguePurchaseOutcome(purchasePrice, stocksPurch, purchaseCurrency, save, info) ==
    LET fail(e, f, n, cs) ==
            [result |-> e, ret |-> NoneRet, info |-> f, infoCalls |-> n,
             file |-> RogueStockHoldingsFile, calls |-> cs, wrote |-> <<>>]
    IN
    IF purchaseCurrency = None /\ displayCurrency = NoAttr
    THEN fail("AttributeError", StockInfoFile, 0, <<>>)
    ELSE
    LET pc == IF purchaseCurrency = None THEN displayCurrency ELSE purchaseCurrency
        ci == cleanInfoOutcome(FALSE, info)
    IN
    IF ci.result # "ok" THEN fail(ci.result, ci.file, ci.infoCalls, <<>>)
    ELSE IF "financialCurrency" \notin DOMAIN ci.data
    THEN fail("KeyError", ci.file, ci.infoCalls, <<>>)
    ELSE
    LET financialCurrency == ci.data["financialCurrency"]
        converted_purchasePrice == convert(purchasePrice, pc, financialCurrency)
        call1 == ConvertCall(purchasePrice, pc, financialCurrency)
    IN
    IF stocksPurch = 0
    THEN fail("ZeroDivisionError", ci.file, ci.infoCalls, <<call1>>)
    \* the second cleanInfo() finds the snapshot the first one left
    ELSE IF displayCurrency = NoAttr
    THEN fail("AttributeError", ci.file, ci.infoCalls, <<call1>>)
    ELSE
    LET stockPrice0 == converted_purchasePrice \div stocksPurch
        stockPrice == convert(stockPrice0, financialCurrency, displayCurrency)
        call2 == ConvertCall(stockPrice0, financialCurrency, displayCurrency)
        storedPrice == convert(purchasePrice, pc, displayCurrency)
        call3 == ConvertCall(purchasePrice, pc, displayCurrency)
        calls == <<call1, call2, call3>>
        new_df == createDataFrameForRoguePurchases(storedPrice, stocksPurch,
                                                   displayCurrency, stockPrice)
    IN
    IF save
    THEN LET u == updateRoguePurchases(new_df) IN
         IF u.result # "ok" THEN fail(u.result, ci.file, ci.infoCalls, calls)
         ELSE LET df == rogueHoldings(u.file) IN
              [result |-> df.result,
               ret |-> IF df.result = "ok" THEN Frame(df.value) ELSE NoneRet,
               info |-> ci.file, infoCalls |-> ci.infoCalls, file |-> u.file,
               calls |-> calls, wrote |-> <<new_df>>]
    ELSE LET df == rogueHoldings(RogueStockHoldingsFile) IN
         IF df.result # "ok" THEN fail(df.result, ci.file, ci.infoCalls, calls)
         ELSE [result |-> "ok", ret |-> Frame(Append(df.value, new_df)),
               info |-> ci.file, infoCalls |-> ci.infoCalls,
               file |-> RogueStockHoldingsFile, calls |-> calls, wrote |-> <<>>]

addRoguePurchase(purchasePrice, stocksPurch, purchaseCurrency, save, info) ==
    LET o == addRoguePurchaseOutcome(purchasePrice, stocksPurch,
                                     purchaseCurrency, save, info)
    IN
    /\ save => Len(RogueStockHoldingsFile.content) < MaxRogue
    /\ op' = "addRoguePurchase"
    /\ args' = <<>>
    /\ result' = o.result
    /\ ret' = o.ret
    /\ StockInfoFile' = o.info
    /\ infoCalls' = o.infoCalls
    /\ RogueStockHoldingsFile' = o.file
    /\ convertCalls' = o.calls
    /\ makedirsCalls' = <<>>
    /\ plotCalls' = <<>>
    /\ UNCHANGED <<attrs, dirs, StockPurchaseHistoryFile>>

---------------------------------------------------------------------------
(* Stock.buyStock *)

(* Lines 418-437: the purchase price and the share count that are stored,  *)
(* from the ones that were given.                                           *)
resolvePurchase(purchasePrice, stocksPurch, purchaseCurrency, financialCurrency, stockPrice) ==
    IF FalsyNumber(purchasePrice)
    THEN LET price == stocksPurch * stockPrice IN
         IF displayCurrency = NoAttr
         THEN [result |-> "AttributeError", purchasePrice |-> price,
               stocksPurch |-> stocksPurch, calls |-> <<>>]
         ELSE IF financialCurrency # displayCurrency
         THEN [result |-> "ok",
               purchasePrice |-> convert(price, financialCurrency, displayCurrency),
               stocksPurch |-> stocksPurch,
               calls |-> <<ConvertCall(price, financialCurrency, displayCurrency)>>]
         ELSE [result |-> "ok", purchasePrice |-> price,
               stocksPurch |-> stocksPurch, calls |-> <<>>]
    ELSE IF FalsyNumber(stocksPurch)
    THEN LET differ == purchaseCurrency # financialCurrency
             converted_purchasePrice ==
                 IF differ
                 THEN convert(purchasePrice, purchaseCurrency, financialCurrency)
                 ELSE purchasePrice
             calls1 ==
                 IF differ
                 THEN <<ConvertCall(purchasePrice, purchaseCurrency, financialCurrency)>>
                 ELSE <<>>
             stocks == converted_purchasePrice \div stockPrice
         IN
         IF displayCurrency = NoAttr
         THEN [result |-> "AttributeError", purchasePrice |-> purchasePrice,
               stocksPurch |-> stocks, calls |-> calls1]
         ELSE IF financialCurrency # displayCurrency
         THEN [result |-> "ok",
               purchasePrice |-> convert(purchasePrice, financialCurrency,
                                          displayCurrency),
               stocksPurch |-> stocks,
               calls |-> Append(calls1, ConvertCall(purchasePrice,
                                    financialCurrency, displayCurrency))]
         ELSE [result |-> "ok", purchasePrice |-> purchasePrice,
               stocksPurch |-> stocks, calls |-> calls1]
    ELSE [result |-> "ok", purchasePrice |-> purchasePrice,
          stocksPurch |-> stocksPurch, calls |-> <<>>]

buyStockOutcome(dateOfpurch, purchasePrice, stocksPurch, purchaseCurrency, save, info, series) ==
    LET fail(e, f, n, cs) ==
            [result |-> e, ret |-> NoneRet, info |-> f, infoCalls |-> n,
             file |-> StockPurchaseHistoryFile, calls |-> cs, wrote |-> <<>>]
    IN
    IF purchaseCurrency = None /\ displayCurrency = NoAttr
    THEN fail("AttributeError", StockInfoFile, 0, <<>>)
    ELSE
    LET pc == IF purchaseCurrency = None THEN displayCurrency ELSE purchaseCurrency
        ci == cleanInfoOutcome(FALSE, info)
    IN
    IF ci.result # "ok" THEN fail(ci.result, ci.file, ci.infoCalls, <<>>)
    ELSE IF "financialCurrency" \notin DOMAIN ci.data
    THEN fail("KeyError", ci.file, ci.infoCalls, <<>>)
    ELSE IF FalsyNumber(purchasePrice) /\ FalsyNumber(stocksPurch)
    THEN fail("ValueError", ci.file, ci.infoCalls, <<>>)
    ELSE IF ~series.hasDate
    THEN fail("KeyError", ci.file, ci.infoCalls, <<>>)
    ELSE
    LET financialCurrency == ci.data["financialCurrency"]
        stockPrice == historyOutcome(series).Close
        r == resolvePurchase(purchasePrice, stocksPurch, pc, financialCurrency,
                             stockPrice)
    IN
    IF r.result # "ok" THEN fail(r.result, ci.file, ci.infoCalls, r.calls)
    ELSE IF displayCurrency = NoAttr
    THEN fail("AttributeError", ci.file, ci.infoCalls, r.calls)
    ELSE
    LET new_df == createDataFrameforPurchaseHistory(dateOfpurch, r.purchasePrice,
                      r.stocksPurch, stockPrice, displayCurrency)
    IN
    IF save
    THEN LET u == updatePurchaseHistory(new_df) IN
         IF u.result # "ok" THEN fail(u.result, ci.file, ci.infoCalls, r.calls)
         ELSE LET df == stock_purchase_history(u.file) IN
              [result |-> df.result,
               ret |-> IF df.result = "ok" THEN Frame(df.value) ELSE NoneRet,
               info |-> ci.file, infoCalls |-> ci.infoCalls, file |-> u.file,
               calls |-> r.calls, wrote |-> <<new_df>>]
    ELSE LET df == stock_purchase_history(StockPurchaseHistoryFile) IN
         IF df.result # "ok" THEN fail(df.result, ci.file, ci.infoCalls, r.calls)
         ELSE [result |-> "ok",
               ret |-> Frame(appendIgnoreIndex(df.value, new_df)),
               info |-> ci.file, infoCalls |-> ci.infoCalls,
               file |-> StockPurchaseHistoryFile, calls |-> r.calls,
               wrote |-> <<>>]

buyStock(dateOfpurch, purchasePrice, stocksPurch, purchaseCurrency, save, info, series) ==
    LET o == buyStockOutcome(dateOfpurch, purchasePrice, stocksPurch,
                             purchaseCurrency, save, info, series)
    IN
    /\ op' = "buyStock"
    /\ args' = <<>>
    /\ result' = o.result
    /\ ret' = o.ret
    /\ StockInfoFile' = o.info
    /\ infoCalls' = o.infoCalls
    /\ StockPurchaseHistoryFile' = o.file
    /\ convertCalls' = o.calls
    /\ makedirsCalls' = <<>>
    /\ plotCalls' = <<>>
    /\ UNCHANGED <<attrs, dirs, RogueStockHoldingsFile>>

---------------------------------------------------------------------------
(* The arguments the methods are called with *)

Dates == {datetime(1, 0), datetime(2, 13)}
PurchasePrices == {Absent, 400}
RoguePrices == {400}
ShareCounts == {Absent, 2}
PurchaseCurrencies == {None} \cup Currencies

(* The caller takes the outcome of a call; the log of the call is cleared. *)
Idle == "idle"

returnToCaller ==
    /\ op # Idle
    /\ op' = Idle
    /\ args' = <<>>
    /\ result' = "ok"
    /\ ret' = NoneRet
    /\ makedirsCalls' = <<>>
    /\ plotCalls' = <<>>
    /\ convertCalls' = <<>>
    /\ infoCalls' = 0
    /\ UNCHANGED <<attrs, disk>>

(* The complete next-state relation: a call of a method, an attribute      *)
(* assignment by the caller or the test's tearDown, one at a time, each    *)
(* outcome taken by the caller before the next call.                        *)
Next ==
    \/ op = Idle /\ loadDirectories
    \/ op = Idle /\ tearDown
    \/ op = Idle /\ \E c \in Currencies : setDisplayCurrency(c)
    \/ op = Idle /\ setColumnsAttr
    \/ op = Idle /\ \E updated \in BOOLEAN, info \in ProviderInfos :
                        cleanInfo(updated, info)
    \/ op = Idle /\ \E destinationGiven \in BOOLEAN, info \in ProviderInfos :
                        saveCleanInfo(destinationGiven, info)
    \/ op = Idle /\ \E series \in ProviderSeries : history(series)
    \/ op = Idle /\ \E series \in ProviderSeries : graphStock(series)
    \/ op = Idle /\ read_stock_purchase_history
    \/ op = Idle /\ read_rogueHoldings
    \/ op = Idle /\ purchaseValue
    \/ op = Idle /\ shares
    \/ op = Idle /\ \E purchasePrice \in RoguePrices, stocksPurch \in ShareCounts,
                        purchaseCurrency \in PurchaseCurrencies, save \in BOOLEAN,
                        info \in LedgerInfos :
                        addRoguePurchase(purchasePrice, stocksPurch,
                                         purchaseCurrency, save, info)
    \/ op = Idle /\ \E dateOfpurch \in Dates, purchasePrice \in PurchasePrices,
                        stocksPurch \in ShareCounts,
                        purchaseCurrency \in PurchaseCurrencies,
                        save \in BOOLEAN, info \in LedgerInfos,
                        series \in ProviderSeries :
                        buyStock(dateOfpurch, purchasePrice, stocksPurch,
                                 purchaseCurrency, save, info, series)
    \/ returnToCaller

(* The ledger starts on a disk where the storage directories are either    *)
(* all missing or all there.                                                *)
InitLedger == Init /\ dirs \in {{}, AllDirectories}

Spec == InitLedger /\ [][Next]_vars

(* The storage directories and the metadata cache alone, from any disk,    *)
(* each call following the one before directly.                             *)
NextStorage ==
    \/ loadDirectories
    \/ tearDown
    \/ \E updated \in BOOLEAN, info \in ProviderInfos : cleanInfo(updated, info)
    \/ \E destinationGiven \in BOOLEAN, info \in ProviderInfos :
          saveCleanInfo(destinationGiven, info)

SpecStorage == Init /\ [][NextStorage]_vars

(* The loaders on a disk where a ledger file may hold text that is not a   *)
(* table.                                                                   *)
InitCorrupt ==
    /\ baseSaveDirectory \in {None, BasePath}
    /\ isJSE \in BOOLEAN
    /\ displayCurrency = NoAttr
    /\ columnsAttr = FALSE
    /\ dirs \in {{}, AllDirectories}
    /\ baseSaveDirectory = None => dirs = {}
    /\ StockInfoFile = NoFile
    /\ StockPurchaseHistoryFile \in
          IF BasePath \in dirs THEN {NoFile, Corrupt} ELSE {NoFile}
    /\ RogueStockHoldingsFile \in
          IF BasePath \in dirs THEN {NoFile, Corrupt} ELSE {NoFile}
    /\ op = "__init__"
    /\ args = <<>>
    /\ result = "ok"
    /\ ret = NoneRet
    /\ makedirsCalls = <<>>
    /\ plotCalls = <<>>
    /\ convertCalls = <<>>
    /\ infoCalls = 0

NextCorrupt ==
    \/ op = Idle /\ \E c \in Currencies : setDisplayCurrency(c)
    \/ op = Idle /\ setColumnsAttr
    \/ op = Idle /\ read_stock_purchase_history
    \/ op = Idle /\ read_rogueHoldings
    \/ op = Idle /\ purchaseValue
    \/ op = Idle /\ shares
    \/ returnToCaller

SpecCorrupt == InitCorrupt /\ [][NextCorrupt]_vars

(* The retrievals of a price series and their consumers alone, buyStock   *)
(* with a purchase currency given and for one date.                        *)
RetrievalDates == {datetime(1, 0)}

NextHistory ==
    \/ op = Idle /\ \E c \in Currencies : setDisplayCurrency(c)
    \/ op = Idle /\ setColumnsAttr
    \/ op = Idle /\ \E series \in ProviderSeries : history(series)
    \/ op = Idle /\ \E series \in ProviderSeries : graphStock(series)
    \/ op = Idle /\ \E dateOfpurch \in RetrievalDates,
                        purchasePrice \in PurchasePrices,
                        stocksPurch \in ShareCounts,
                        purchaseCurrency \in Currencies,
                        save \in BOOLEAN, info \in LedgerInfos,
                        series \in ProviderSeries :
                        buyStock(dateOfpurch, purchasePrice, stocksPurch,
                                 purchaseCurrency, save, info, series)
    \/ returnToCaller

SpecHistory == InitLedger /\ [][NextHistory]_vars

---------------------------------------------------------------------------
(* Properties *)

Range(seq) == {seq[i] : i \in DOMAIN seq}

FourDirectories ==
    {"base", "base/cashflow", "base/incomestatement", "base/balancesheet"}

(* C2: loadDirectories on a Stock constructed without a base save          *)
(* directory raises ValueError and creates no directory: it issues no      *)
(* os.makedirs call and no directory exists afterwards.                     *)
C2_NoBaseDirectoryRaises ==
    (op = "loadDirectories" /\ baseSaveDirectory = None)
        => /\ result = "ValueError"
           /\ makedirsCalls = <<>>
           /\ dirs = args.dirsBefore
           /\ dirs = {}

C2_Witness ==
    /\ op = "loadDirectories"
    /\ baseSaveDirectory = None
    /\ result = "ValueError"

(* C3: loadDirectories on a Stock with a base save directory, none of      *)
(* whose directories exists yet, issues one os.makedirs call for each of   *)
(* exactly the four paths base, base/cashflow, base/incomestatement and    *)
(* base/balancesheet, and all four exist once it returns.                   *)
C3_CreatesTheFourDirectories ==
    (op = "loadDirectories" /\ baseSaveDirectory # None /\ args.dirsBefore = {})
        => /\ result = "ok"
           /\ Len(makedirsCalls) = 4
           /\ Range(makedirsCalls) = FourDirectories
           /\ dirs = FourDirectories

C3_Witness ==
    /\ op = "loadDirectories"
    /\ baseSaveDirectory # None
    /\ args.dirsBefore = {}
    /\ result = "ok"
    /\ Len(makedirsCalls) = 4

(* C4: a loadDirectories call that directly follows a loadDirectories call *)
(* that returned raises nothing, issues no os.makedirs call, and leaves    *)
(* the set of existing directories as the first call left it.               *)
C4_SecondCallCreatesNothing ==
    (/\ op = "loadDirectories"
     /\ args.afterOp = "loadDirectories"
     /\ args.afterResult = "ok")
        => /\ result = "ok"
           /\ makedirsCalls = <<>>
           /\ dirs = args.dirsBefore

C4_Witness ==
    /\ op = "loadDirectories"
    /\ args.afterOp = "loadDirectories"
    /\ args.afterResult = "ok"
    /\ result = "ok"
    /\ makedirsCalls = <<>>
    /\ dirs = FourDirectories

(* The allow-listed part of a provider answer: the snapshot has only       *)
(* allow-listed keys, each with the value the provider gave.                *)
IsAllowListedPartOf(snapshot, info) ==
    /\ DOMAIN snapshot \subseteq (cleanInfoKeys \cap DOMAIN info)
    /\ \A key \in DOMAIN snapshot : snapshot[key] = info[key]

(* C6 as stated: cleanInfo with updated false and a cached snapshot        *)
(* returns the cached snapshot and reads no provider metadata; in every    *)
(* other case it reads the provider metadata exactly once, persists the    *)
(* allow-listed part of it and returns what it persisted.                   *)
C6_AsStated ==
    [][\A updated \in BOOLEAN, info \in ProviderInfos :
          cleanInfo(updated, info) =>
             IF ~updated /\ StockInfoFile.exists
             THEN /\ result' = "ok"
                  /\ ret' = Dict(StockInfoFile.content)
                  /\ infoCalls' = 0
             ELSE /\ result' = "ok"
                  /\ infoCalls' = 1
                  /\ StockInfoFile'.exists
                  /\ IsAllowListedPartOf(StockInfoFile'.content, info)
                  /\ ret' = Dict(StockInfoFile'.content)]_vars

(* C6 amended: on a Stock whose base save directory is configured and      *)
(* exists on disk, cleanInfo with updated false and a cached snapshot      *)
(* returns the cached snapshot, reads no provider metadata and leaves the  *)
(* snapshot file as it is; in every other case it reads the provider       *)
(* metadata exactly once, persists the allow-listed keys whose value is    *)
(* truthy and returns what it persisted.  With no base save directory, or  *)
(* one that does not exist on disk, the call raises (TypeError, OSError),  *)
(* persists nothing, and has read the provider metadata once unless there  *)
(* is no base save directory and updated is false.                          *)
C6_CacheOrFetchOnce ==
    [][\A updated \in BOOLEAN, info \in ProviderInfos :
          cleanInfo(updated, info) =>
             IF baseSaveDirectory = None \/ BasePath \notin dirs
             THEN /\ result' = IF baseSaveDirectory = None THEN "TypeError"
                                ELSE "OSError"
                  /\ infoCalls' = IF baseSaveDirectory = None /\ ~updated
                                   THEN 0 ELSE 1
                  /\ StockInfoFile' = StockInfoFile
                  /\ ~StockInfoFile'.exists
             ELSE IF ~updated /\ StockInfoFile.exists
             THEN /\ result' = "ok"
                  /\ ret' = Dict(StockInfoFile.content)
                  /\ infoCalls' = 0
                  /\ StockInfoFile' = StockInfoFile
             ELSE /\ result' = "ok"
                  /\ infoCalls' = 1
                  /\ StockInfoFile'.exists
                  /\ IsAllowListedPartOf(StockInfoFile'.content, info)
                  /\ DOMAIN StockInfoFile'.content =
                        {key \in cleanInfoKeys \cap DOMAIN info : info[key] # ""}
                  /\ ret' = Dict(StockInfoFile'.content)]_vars

(* A fetch persisted a snapshot without the "sector" key, whose value the  *)
(* provider gave as an empty string, and returned that snapshot.            *)
C6_Witness ==
    /\ op = "cleanInfo"
    /\ result = "ok"
    /\ infoCalls = 1
    /\ StockInfoFile.exists
    /\ ret = Dict(StockInfoFile.content)
    /\ "sector" \notin DOMAIN StockInfoFile.content

(* C1: the dated ledger round trip, stated for one more purchase: from no  *)
(* backing file on, every buyStock with save=True that rewrites            *)
(* stockPurchaseHistory.json makes stock_purchase_history return the rows  *)
(* it returned before, unchanged and in the same order, followed by one    *)
(* more row that carries the day of the date supplied.                      *)
C1_RoundTrip ==
    [][\A dateOfpurch \in Dates, purchasePrice \in PurchasePrices,
          stocksPurch \in ShareCounts, purchaseCurrency \in PurchaseCurrencies,
          info \in LedgerInfos, series \in ProviderSeries :
          (/\ buyStock(dateOfpurch, purchasePrice, stocksPurch,
                       purchaseCurrency, TRUE, info, series)
           /\ StockPurchaseHistoryFile' # StockPurchaseHistoryFile)
          => LET before == stock_purchase_history(StockPurchaseHistoryFile)
                 after == stock_purchase_history(StockPurchaseHistoryFile')
                 n == Len(before.value)
             IN /\ after.result = "ok"
                /\ Len(after.value) = n + 1
                /\ SubSeq(after.value, 1, n) = before.value
                /\ after.value[n + 1].DateofPurchase.kind = "datetime"
                /\ after.value[n + 1].DateofPurchase.day = dateOfpurch.day]_vars

(* C5: buyStock with neither purchasePrice nor stocksPurch raises          *)
(* ValueError and leaves both ledger files, and so what the loaders        *)
(* return, as they were.                                                    *)
C5_BothOmittedRaisesValueError ==
    [][\A dateOfpurch \in Dates, purchaseCurrency \in PurchaseCurrencies,
          save \in BOOLEAN, info \in LedgerInfos, series \in ProviderSeries :
          buyStock(dateOfpurch, Absent, Absent, purchaseCurrency, save, info, series)
          => /\ result' = "ValueError"
             /\ UNCHANGED ledgerFiles]_vars

(* The rows whose stored currency is not the display currency. *)
Differing(rows) == {i \in DOMAIN rows : rows[i].Currency # displayCurrency}

(* The price of a row in the display currency. *)
InDisplayCurrency(row) ==
    IF row.Currency = displayCurrency THEN row.PurchasePrice
    ELSE (row.PurchasePrice * Rate[displayCurrency]) \div Rate[row.Currency]

RECURSIVE TotalInDisplayCurrency(_)
TotalInDisplayCurrency(rows) ==
    IF rows = <<>> THEN 0
    ELSE InDisplayCurrency(Head(rows)) + TotalInDisplayCurrency(Tail(rows))

(* C7: purchaseValue calls the converter once for each row, dated or       *)
(* rogue, whose stored currency differs from the display currency, and     *)
(* never for a row in the display currency, whose price it adds as it is:  *)
(* the number of converter calls is the number of differing rows.           *)
C7_ConverterCalledOncePerDifferingRow ==
    op = "purchaseValue"
        => /\ Len(convertCalls) =
                 Cardinality(Differing(StockPurchaseHistoryFile.content))
                 + Cardinality(Differing(RogueStockHoldingsFile.content))
           /\ \A i \in DOMAIN convertCalls :
                 convertCalls[i].currency # convertCalls[i].new_currency
           /\ result = "ok" =>
                 ret = Number(TotalInDisplayCurrency(RogueStockHoldingsFile.content)
                              + TotalInDisplayCurrency(
                                    StockPurchaseHistoryFile.content))

RECURSIVE TotalStocks(_)
TotalStocks(rows) ==
    IF rows = <<>> THEN 0
    ELSE Head(rows).StocksPurchased + TotalStocks(Tail(rows))

(* C8: shares raises nothing and returns the sum of StocksPurchased over   *)
(* the dated and the rogue rows of the ledger, which is 0 when there is no *)
(* backing file.                                                            *)
C8_SharesIsTheSumOverBothTables ==
    op = "shares"
        => /\ result = "ok"
           /\ ret = Number(TotalStocks(StockPurchaseHistoryFile.content)
                           + TotalStocks(RogueStockHoldingsFile.content))

(* C9: stock_purchase_history and rogueHoldings raise when their backing   *)
(* file exists and does not parse; they return the empty frame only when   *)
(* there is no backing file.                                                *)
C9_CorruptLedgerRaises ==
    /\ op = "stock_purchase_history"
          => /\ (StockPurchaseHistoryFile.exists
                    /\ ~StockPurchaseHistoryFile.parseable) => result # "ok"
             /\ (result = "ok" /\ ret = Frame(<<>>))
                    => ~StockPurchaseHistoryFile.exists
    /\ op = "rogueHoldings"
          => /\ (RogueStockHoldingsFile.exists
                    /\ ~RogueStockHoldingsFile.parseable) => result # "ok"
             /\ (result = "ok" /\ ret = Frame(<<>>))
                    => ~RogueStockHoldingsFile.exists

(* What C10 says of one call that appends `rows` long collections:         *)
(* with save false the backing files stay as they are and the call         *)
(* returns the rows stored before followed by one new row; with save true  *)
(* the backing file holds the rows it held before followed by one new row, *)
(* and the call returns that collection.                                    *)
AppendContract(save, before, fileBefore, fileAfter, after) ==
    LET n == Len(before.value) IN
    /\ ~save => UNCHANGED ledgerFiles
    /\ (~save /\ result' = "ok")
          => /\ ret'.kind = "DataFrame"
             /\ Len(ret'.rows) = n + 1
             /\ SubSeq(ret'.rows, 1, n) = before.value
    /\ (save /\ fileAfter # fileBefore)
          => /\ result' = "ok"
             /\ Len(fileAfter.content) = Len(fileBefore.content) + 1
             /\ SubSeq(fileAfter.content, 1, Len(fileBefore.content))
                   = fileBefore.content
             /\ after.result = "ok"
             /\ ret' = Frame(after.value)
             /\ Len(after.value) = n + 1
             /\ SubSeq(after.value, 1, n) = before.value

(* C10: the save flag governs the only write of buyStock and of            *)
(* addRoguePurchase, and either way the call returns the stored rows       *)
(* followed by the new one.                                                 *)
C10_SaveFlagGovernsTheWrite ==
    [][/\ \A dateOfpurch \in Dates, purchasePrice \in PurchasePrices,
            stocksPurch \in ShareCounts, purchaseCurrency \in PurchaseCurrencies,
            save \in BOOLEAN, info \in LedgerInfos, series \in ProviderSeries :
            buyStock(dateOfpurch, purchasePrice, stocksPurch, purchaseCurrency,
                     save, info, series)
            => AppendContract(save,
                   stock_purchase_history(StockPurchaseHistoryFile),
                   StockPurchaseHistoryFile, StockPurchaseHistoryFile',
                   stock_purchase_history(StockPurchaseHistoryFile'))
       /\ \A purchasePrice \in RoguePrices, stocksPurch \in ShareCounts,
            purchaseCurrency \in PurchaseCurrencies, save \in BOOLEAN,
            info \in LedgerInfos :
            addRoguePurchase(purchasePrice, stocksPurch, purchaseCurrency, save, info)
            => AppendContract(save,
                   rogueHoldings(RogueStockHoldingsFile),
                   RogueStockHoldingsFile, RogueStockHoldingsFile',
                   rogueHoldings(RogueStockHoldingsFile'))]_vars

(* The row a buyStock or addRoguePurchase call recorded: with save true,   *)
(* the last row of the backing file it rewrote; with save false, the last  *)
(* row of the frame it returned.                                            *)
LastRow(rows) == rows[Len(rows)]

Recorded(save, fileBefore, fileAfter) ==
    \/ save /\ fileAfter # fileBefore
    \/ ~save /\ result' = "ok"

RecordedRow(save, fileAfter) ==
    IF save THEN LastRow(fileAfter.content) ELSE LastRow(ret'.rows)

(* An amount of `currency` in the display currency; the amount itself      *)
(* when the two are the same.                                               *)
Normalized(amount, currency) ==
    IF currency = displayCurrency THEN amount
    ELSE (amount * Rate[displayCurrency]) \div Rate[currency]

(* The currency of the purchase: the one given, the display currency when  *)
(* none is given.                                                           *)
PurchaseCurrencyOf(purchaseCurrency) ==
    IF purchaseCurrency = None THEN displayCurrency ELSE purchaseCurrency

(* The price of one share on the date, as history returns it. *)
PriceOnDate(series) == IF isJSE THEN series.Close \div 100 ELSE series.Close

(* C11: buyStock given both purchasePrice and stocksPurch records the      *)
(* share count given and the purchase price given, converted from the      *)
(* purchase currency to the display currency (as it is when the two are    *)
(* the same).                                                               *)
C11_BothSuppliedPassThrough ==
    [][\A dateOfpurch \in Dates, purchasePrice \in PurchasePrices \ {Absent},
          stocksPurch \in ShareCounts \ {Absent},
          purchaseCurrency \in PurchaseCurrencies, save \in BOOLEAN,
          info \in LedgerInfos, series \in ProviderSeries :
          (/\ buyStock(dateOfpurch, purchasePrice, stocksPurch,
                       purchaseCurrency, save, info, series)
           /\ Recorded(save, StockPurchaseHistoryFile, StockPurchaseHistoryFile'))
          => LET row == RecordedRow(save, StockPurchaseHistoryFile') IN
             /\ row.StocksPurchased = stocksPurch
             /\ row.PurchasePrice =
                   Normalized(purchasePrice,
                              PurchaseCurrencyOf(purchaseCurrency))]_vars

(* C12: buyStock given purchasePrice and no stocksPurch records as share   *)
(* count the purchase price in the financial currency (converted from the  *)
(* purchase currency unless the two are the same) divided by the price on  *)
(* the date, and as purchase price the price given, converted from the     *)
(* purchase currency to the display currency.                               *)
C12_SharesDerivedFromThePrice ==
    [][\A dateOfpurch \in Dates, purchasePrice \in PurchasePrices \ {Absent},
          purchaseCurrency \in PurchaseCurrencies, save \in BOOLEAN,
          info \in LedgerInfos, series \in ProviderSeries :
          (/\ buyStock(dateOfpurch, purchasePrice, Absent, purchaseCurrency,
                       save, info, series)
           /\ Recorded(save, StockPurchaseHistoryFile, StockPurchaseHistoryFile'))
          => LET row == RecordedRow(save, StockPurchaseHistoryFile')
                 pc == PurchaseCurrencyOf(purchaseCurrency)
                 financialCurrency == StockInfoFile'.content["financialCurrency"]
                 inFinancialCurrency ==
                     IF pc = financialCurrency THEN purchasePrice
                     ELSE (purchasePrice * Rate[financialCurrency]) \div Rate[pc]
             IN /\ row.StocksPurchased = inFinancialCurrency \div PriceOnDate(series)
                /\ row.PurchasePrice = Normalized(purchasePrice, pc)]_vars

(* C13: the StockPrice of every row that buyStock or addRoguePurchase      *)
(* records is in the display currency, which is the currency the row       *)
(* states: for buyStock the price on the date, given by the provider in    *)
(* the financial currency, converted to the display currency; for          *)
(* addRoguePurchase the purchase price in the display currency divided by  *)
(* the share count.                                                         *)
C13_StockPriceInDisplayCurrency ==
    [][/\ \A dateOfpurch \in Dates, purchasePrice \in PurchasePrices,
            stocksPurch \in ShareCounts, purchaseCurrency \in PurchaseCurrencies,
            save \in BOOLEAN, info \in LedgerInfos, series \in ProviderSeries :
            (/\ buyStock(dateOfpurch, purchasePrice, stocksPurch,
                         purchaseCurrency, save, info, series)
             /\ Recorded(save, StockPurchaseHistoryFile, StockPurchaseHistoryFile'))
            => LET row == RecordedRow(save, StockPurchaseHistoryFile') IN
               /\ row.Currency = displayCurrency
               /\ row.StockPrice =
                     Normalized(PriceOnDate(series),
                                StockInfoFile'.content["financialCurrency"])
       /\ \A purchasePrice \in RoguePrices, stocksPurch \in ShareCounts \ {Absent},
            purchaseCurrency \in PurchaseCurrencies, save \in BOOLEAN,
            info \in LedgerInfos :
            (/\ addRoguePurchase(purchasePrice, stocksPurch, purchaseCurrency,
                                 save, info)
             /\ Recorded(save, RogueStockHoldingsFile, RogueStockHoldingsFile'))
            => LET row == RecordedRow(save, RogueStockHoldingsFile') IN
               /\ row.Currency = displayCurrency
               /\ row.StockPrice =
                     Normalized(purchasePrice,
                                PurchaseCurrencyOf(purchaseCurrency))
                        \div stocksPurch]_vars

(* A series with each of its four price columns divided by 100, once. *)
CorrectedOnce(series) ==
    [Open |-> series.Open \div 100, High |-> series.High \div 100,
     Low |-> series.Low \div 100, Close |-> series.Close \div 100,
     hasDate |-> series.hasDate]

(* C14: every call of history returns the provider's series with Open,     *)
(* High, Low and Close divided by 100 once when isJSE is true, and as the  *)
(* provider gave it when isJSE is false; graphStock plots, and buyStock    *)
(* records as StockPrice, the Close of that series and correct it no       *)
(* further.                                                                 *)
C14_CorrectionOncePerRetrieval ==
    [][/\ \A series \in ProviderSeries :
            history(series)
            => ret'.series = IF isJSE THEN CorrectedOnce(series) ELSE series
       /\ \A series \in ProviderSeries :
            graphStock(series) => plotCalls' = <<PriceOnDate(series)>>
       /\ \A dateOfpurch \in RetrievalDates, purchasePrice \in PurchasePrices,
            stocksPurch \in ShareCounts, purchaseCurrency \in Currencies,
            save \in BOOLEAN, info \in LedgerInfos, series \in ProviderSeries :
            (/\ buyStock(dateOfpurch, purchasePrice, stocksPurch,
                         purchaseCurrency, save, info, series)
             /\ Recorded(save, StockPurchaseHistoryFile, StockPurchaseHistoryFile'))
            => RecordedRow(save, StockPurchaseHistoryFile').StockPrice
                  = PriceOnDate(series)]_vars

(* A buyStock on an instrument flagged isJSE wrote a row whose StockPrice  *)
(* is the provider's Close of 200 divided by 100 once.                      *)
C14_Witness ==
    /\ op = "buyStock"
    /\ isJSE
    /\ result = "ok"
    /\ StockPurchaseHistoryFile.exists
    /\ LastRow(StockPurchaseHistoryFile.content).StockPrice = 2

=============================================================================
